---- MODULE Spec2Model ----
(***************************************************************************)
(* Model of the real-time emergency dispatch coordinator of jeevan-setu:   *)
(* the socket.io server in backend/src (in-memory state + socket handlers).*)
(* One action per socket handler; every handler runs to completion on the  *)
(* single-threaded event loop, so each action is one atomic step.          *)
(***************************************************************************)
EXTENDS Integers, Sequences, FiniteSets, TLC

\* ---------------------------------------------------------------- bounds
NumSockets == 2        \* socket.io connections that ever exist
MaxEmergencies == 2    \* uuidv4() calls made by patient:sos
MaxSteps == 8          \* events processed in one run of the server
MaxPairSteps == 3      \* events processed by each of two runs compared

Sockets == 1..NumSockets
EmergencyIds == 1..MaxEmergencies
\* the ids a client can name: those handed out so far and one that was not
\* (ids are opaque, every unknown id is treated alike)
NameableIds(next) == 1..next
\* { lat, lng } in whole degrees
Locs == {<<0, 0>>}

\* JavaScript undefined / null for a payload or a location
Undefined == << >>
\* { lat: 19.076, lng: 72.8777 }, the default of driver:register and patient:sos
DefaultLoc == <<0, 0>>
\* assignedDriver: null (an assigned driver is held by its socketId, the only
\* field of it the handlers read back)
NullDriver == [socketId |-> 0]

\* payloads: undefined, or an object whose location field is set or missing
Payloads == {Undefined} \cup {<<l>> : l \in Locs \cup {Undefined}}

VARIABLES
    conn,             \* socket id -> "new" | "open" | "closed"
    drivers,          \* state.drivers, a Map in insertion order
    emergencies,      \* state.emergencies, emergencyId -> emergency
    hospitals,        \* state.hospitals, a Map in insertion order
    nextEmergencyId,  \* ids handed out by uuidv4() to emergencies
    outbox,           \* emit calls made by the last handler, in order
    lastEvent,        \* the event the last handler processed
    crashed,          \* an exception escaped a handler: the process is gone
    steps,            \* events processed so far
    hist,             \* per emergency id: what was ever emitted / done
    runs              \* two runs of the server fed the same events (PairSpec)

vars == <<conn, drivers, emergencies, hospitals, nextEmergencyId,
          outbox, lastEvent, crashed, steps, hist, runs>>

\* ------------------------------------------------------ Map (insertion order)
HasKey(m, k) == \E i \in 1..Len(m) : m[i].socketId = k
IndexOf(m, k) == CHOOSE i \in 1..Len(m) : m[i].socketId = k
MapGet(m, k) == m[IndexOf(m, k)]
\* mutant: set never replaces an entry, it always adds one
MapAppend(m, k, v) == Append(m, v)

MapSet(m, k, v) ==
    IF HasKey(m, k) THEN [m EXCEPT ![IndexOf(m, k)] = v] ELSE Append(m, v)

\* mutant: the entry is not removed
MapKeep(m, k) == m

MapDelete(m, k) == SelectSeq(m, LAMBDA r : r.socketId # k)

\* ------------------------------------------------------------------ events
Emit(name, to, emergencyId, driver, distance) ==
    [event |-> name, to |-> to, emergencyId |-> emergencyId,
     driver |-> driver, distance |-> distance]

Event(name, socket, emergencyId, data) ==
    [name |-> name, socket |-> socket, emergencyId |-> emergencyId]

\* The handler threw after emitting msgs: nothing catches the exception and
\* the process terminates. The other variables keep what the handler had done.
Throws(msgs) ==
    /\ crashed' = TRUE
    /\ outbox' = msgs

Init ==
    /\ conn = [s \in Sockets |-> "new"]
    /\ drivers = << >>
    /\ emergencies = << >>
    /\ hospitals = << >>
    /\ nextEmergencyId = 1
    /\ outbox = << >>
    /\ lastEvent = Event("none", 0, 0, Undefined)
    /\ crashed = FALSE
    /\ steps = 0
    /\ hist = [e \in EmergencyIds |->
                 [assigned |-> 0, confirmed |-> 0, cancelled |-> FALSE]]
    /\ runs = << >>

\* the event loop takes the next event
Running ==
    /\ ~crashed
    /\ steps < MaxSteps
    /\ steps' = steps + 1
    /\ UNCHANGED runs

\* io.on('connection'): installs the handlers below on the new socket. Socket
\* ids are opaque, so the clients connect in the order of their ids.
Connection(s) ==
    /\ Running
    /\ conn[s] = "new"
    /\ \A t \in Sockets : t < s => conn[t] # "new"
    /\ conn' = [conn EXCEPT ![s] = "open"]
    /\ outbox' = << >>
    /\ lastEvent' = Event("connection", s, 0, Undefined)
    /\ UNCHANGED <<drivers, emergencies, hospitals, nextEmergencyId, crashed,
                   hist>>

\* ------------------------------------------------------- helper functions
RECURSIVE Newton(_, _)
Newton(n, x) ==
    LET y == (x + n \div x) \div 2 IN IF y >= x THEN x ELSE Newton(n, y)

\* Math.sqrt on integers (floor)
Isqrt(n) == IF n = 0 THEN 0 ELSE Newton(n, n)

\* const R = 6371
EarthRadius == 6371

\* Product of two fixed-point numbers (four decimals); like the IEEE product it
\* is commutative and its magnitude does not depend on the signs.
Mul(x, y) ==
    LET p == x * y IN IF p < 0 THEN -((-p) \div 10000) ELSE p \div 10000

\* Math.sin(deg2rad(d) / 2) for a whole number of degrees d in -360..360, by
\* Bhaskara's rational formula; odd, as Math.sin is.
RECURSIVE SinHalf(_)
SinHalf(d) ==
    IF d < 0 THEN -SinHalf(-d)
    ELSE (4 * d * (360 - d) * 10000) \div (162000 - d * (360 - d))

\* Math.cos(deg2rad(d)) for d in -90..90: cos x = sin(90 - x)
Cos(d) == SinHalf(180 - 2 * d)

\* Math.atan2(y, x) for y, x >= 0, in radians (four decimals)
Atan2(y, x) ==
    LET At(t) == (t * 10000) \div (10000 + (28 * Mul(t, t)) \div 100)
    IN  IF y = 0 THEN 0
        ELSE IF y <= x THEN At((y * 10000) \div x)
        ELSE 15708 - At((x * 10000) \div y)

\* The haversine term with the first point's latitude taken for both cosines
HaversineOneLatitude(loc1, loc2, dLat, dLon) ==
    SinHalf(dLat) * SinHalf(dLat)
      + Mul(Mul(Cos(loc1[1]), Cos(loc1[1])), SinHalf(dLon)) * SinHalf(dLon)

\* The haversine term a (eight decimals), with both latitudes' cosines
Haversine(loc1, loc2, dLat, dLon) ==
    SinHalf(dLat) * SinHalf(dLat)
      + Mul(Mul(Cos(loc1[1]), Cos(loc2[1])), SinHalf(dLon)) * SinHalf(dLon)

\* calculateDistance: the haversine formula in fixed point, the result in
\* tenths of a km as (R * c).toFixed(1) prints it.
CalculateDistance(loc1, loc2) ==
    LET dLat == loc2[1] - loc1[1]
        dLon == loc2[2] - loc1[2]
        a == Haversine(loc1, loc2, dLat, dLon)
        c == 2 * Atan2(Isqrt(a), Isqrt(100000000 - a))
    IN  (EarthRadius * c + 500) \div 1000

\* mutant: every offer of a broadcast carries the distance computed for its
\* first recipient
RECURSIVE ForEachDriverShared(_, _, _)
ForEachDriverShared(ds, emergency, acc) ==
    IF ds = << >> THEN acc
    ELSE LET driver == Head(ds) IN
         IF driver.status = "available"
         THEN IF driver.location = Undefined
              THEN [acc EXCEPT !.threw = TRUE]
              ELSE ForEachDriverShared(Tail(ds), emergency,
                     [acc EXCEPT
                        !.msgs = Append(@, Emit("emergency:new-request",
                                   driver.socketId, emergency.id, 0,
                                   IF acc.msgs = << >>
                                   THEN <<CalculateDistance(driver.location,
                                                            emergency.location)>>
                                   ELSE acc.msgs[1].distance)),
                        !.notified = @ + 1])
         ELSE ForEachDriverShared(Tail(ds), emergency, acc)

\* mutant: only the drivers at the place of the emergency are offered it
RECURSIVE ForEachNearbyDriver(_, _, _)
ForEachNearbyDriver(ds, emergency, acc) ==
    IF ds = << >> THEN acc
    ELSE LET driver == Head(ds) IN
         IF driver.status = "available" /\ driver.location = Undefined
         THEN [acc EXCEPT !.threw = TRUE]
         ELSE IF driver.status = "available"
                 /\ driver.location = emergency.location
         THEN ForEachNearbyDriver(Tail(ds), emergency,
                [acc EXCEPT
                   !.msgs = Append(@, Emit("emergency:new-request",
                              driver.socketId, emergency.id, 0, <<0>>)),
                   !.notified = @ + 1])
         ELSE ForEachNearbyDriver(Tail(ds), emergency, acc)

\* state.drivers.forEach of broadcastToAvailableDrivers, from entry i on;
\* reading .lat of an undefined driver.location throws out of the loop
RECURSIVE ForEachDriver(_, _, _)
ForEachDriver(ds, emergency, acc) ==
    IF ds = << >> THEN acc
    ELSE LET driver == Head(ds) IN
         IF driver.status = "available"
         THEN IF driver.location = Undefined
              THEN [acc EXCEPT !.threw = TRUE]
              ELSE ForEachDriver(Tail(ds), emergency,
                     [acc EXCEPT
                        !.msgs = Append(@, Emit("emergency:new-request",
                                   driver.socketId, emergency.id, 0,
                                   <<CalculateDistance(driver.location,
                                                       emergency.location)>>)),
                        !.notified = @ + 1])
         ELSE ForEachDriver(Tail(ds), emergency, acc)

\* mutant: "no drivers" is sent only when no driver is registered at all, so
\* a patient whose drivers are all busy is told nothing
BroadcastCountsBusy(ds, emergency) ==
    LET r == ForEachDriver(ds, emergency,
                           [msgs |-> << >>, notified |-> 0, threw |-> FALSE])
    IN  IF ~r.threw /\ ds = << >>
        THEN [r EXCEPT !.msgs = Append(@, Emit("emergency:no-drivers",
                          emergency.patientSocketId, emergency.id, 0, << >>))]
        ELSE r

\* broadcastToAvailableDrivers(emergency) over the drivers Map ds
BroadcastToAvailableDrivers(ds, emergency) ==
    LET r == ForEachDriver(ds, emergency,
                           [msgs |-> << >>, notified |-> 0, threw |-> FALSE])
    IN  IF ~r.threw /\ r.notified = 0
        THEN [r EXCEPT !.msgs = Append(@, Emit("emergency:no-drivers",
                          emergency.patientSocketId, emergency.id, 0, << >>))]
        ELSE r

\* ------------------------------------------------------------ driver events
\* socket.on('driver:register')
DriverRegister(s, data) ==
    /\ Running
    /\ conn[s] = "open"
    /\ lastEvent' = Event("driver:register", s, 0, data)
    /\ IF data = Undefined
       THEN /\ Throws(<< >>)
            /\ UNCHANGED <<conn, drivers, emergencies, hospitals>>
       ELSE LET driver == [socketId |-> s,
                           location |-> IF data[1] = Undefined
                                        THEN DefaultLoc ELSE data[1],
                           status |-> "available"]
            IN  /\ drivers' = MapSet(drivers, s, driver)
                /\ outbox' = <<Emit("driver:registered", s, 0, s, << >>)>>
                /\ UNCHANGED <<conn, emergencies, hospitals, crashed>>
    /\ UNCHANGED <<nextEmergencyId, hist>>

\* mutant: the update stores the location and makes the driver available, as a
\* registration does
DriverUpdateLocationResets(s, location) ==
    /\ Running
    /\ conn[s] = "open"
    /\ lastEvent' = Event("driver:update-location", s, 0, <<location>>)
    /\ drivers' = IF HasKey(drivers, s)
                  THEN MapSet(drivers, s,
                              [MapGet(drivers, s) EXCEPT !.location = location,
                                                         !.status = "available"])
                  ELSE drivers
    /\ outbox' = << >>
    /\ UNCHANGED <<conn, emergencies, hospitals, nextEmergencyId, crashed, hist>>

\* socket.on('driver:update-location')
DriverUpdateLocation(s, location) ==
    /\ Running
    /\ conn[s] = "open"
    /\ lastEvent' = Event("driver:update-location", s, 0, <<location>>)
    /\ drivers' = IF HasKey(drivers, s)
                  THEN MapSet(drivers, s,
                              [MapGet(drivers, s) EXCEPT !.location = location])
                  ELSE drivers
    /\ outbox' = << >>
    /\ UNCHANGED <<conn, emergencies, hospitals, nextEmergencyId, crashed, hist>>

\* mutant: the accept does not look at the emergency's status
CanAcceptAnyStatus(s, e) ==
    /\ HasKey(drivers, s)
    /\ e \in DOMAIN emergencies

\* driver && emergency && emergency.status === 'searching'
CanAccept(s, e) ==
    /\ HasKey(drivers, s)
    /\ e \in DOMAIN emergencies
    /\ emergencies[e].status = "searching"

\* mutant: the status is set but the driver is not recorded
AssignStatusOnly(emergency, driver) ==
    [emergency EXCEPT !.status = "accepted"]

\* mutant: the driver is recorded but the emergency stays 'searching'
AssignDriverOnly(emergency, driver) ==
    [emergency EXCEPT !.assignedDriver = [socketId |-> driver.socketId]]

\* emergency.status = 'accepted'; emergency.assignedDriver = driver
Assign(emergency, driver) ==
    [emergency EXCEPT !.status = "accepted",
                      !.assignedDriver = [socketId |-> driver.socketId]]

\* mutant: only the first hospital of the Map is notified
NotifyFirstHospital(hs, e) ==
    IF hs = << >> THEN << >>
    ELSE <<Emit("hospital:incoming-patient", Head(hs).socketId, e, 0, << >>)>>

\* state.hospitals.forEach(... emit('hospital:incoming-patient') ...)
RECURSIVE NotifyHospitals(_, _)
NotifyHospitals(hs, e) ==
    IF hs = << >> THEN << >>
    ELSE <<Emit("hospital:incoming-patient", Head(hs).socketId, e, 0, << >>)>>
         \o NotifyHospitals(Tail(hs), e)

\* socket.on('driver:accept')
DriverAccept(s, e) ==
    /\ Running
    /\ conn[s] = "open"
    /\ lastEvent' = Event("driver:accept", s, e, Undefined)
    /\ IF CanAccept(s, e)
       THEN LET driver == MapGet(drivers, s)
                emergency == emergencies[e]
            IN  /\ drivers' = MapSet(drivers, s, [driver EXCEPT !.status = "busy"])
                /\ emergencies' = [emergencies EXCEPT ![e] = Assign(emergency, driver)]
                /\ outbox' =
                     <<Emit("emergency:driver-assigned", emergency.patientSocketId,
                            e, driver.socketId, << >>),
                       Emit("driver:assignment-confirmed", s, e, 0, << >>)>>
                     \o NotifyHospitals(hospitals, e)
                /\ hist' = [hist EXCEPT ![e].assigned = @ + 1,
                                        ![e].confirmed = @ + 1]
       ELSE /\ outbox' = << >>
            /\ UNCHANGED <<drivers, emergencies, hist>>
    /\ UNCHANGED <<conn, hospitals, nextEmergencyId, crashed>>

\* mutant: a rejected request goes back to searching with no assigned driver
DriverRejectRequeues(s, e) ==
    /\ Running
    /\ conn[s] = "open"
    /\ lastEvent' = Event("driver:reject", s, e, Undefined)
    /\ IF e \in DOMAIN emergencies
       THEN LET b == BroadcastToAvailableDrivers(drivers, emergencies[e])
            IN  /\ emergencies' = [emergencies EXCEPT
                                     ![e].status = "searching",
                                     ![e].assignedDriver = NullDriver]
                /\ IF b.threw THEN Throws(b.msgs)
                   ELSE /\ outbox' = b.msgs
                        /\ UNCHANGED crashed
       ELSE /\ outbox' = << >>
            /\ UNCHANGED <<crashed, emergencies>>
    /\ UNCHANGED <<conn, drivers, hospitals, nextEmergencyId, hist>>

\* socket.on('driver:reject')
DriverReject(s, e) ==
    /\ Running
    /\ conn[s] = "open"
    /\ lastEvent' = Event("driver:reject", s, e, Undefined)
    /\ IF e \in DOMAIN emergencies
       THEN LET b == BroadcastToAvailableDrivers(drivers, emergencies[e])
            IN  IF b.threw THEN Throws(b.msgs)
                ELSE /\ outbox' = b.msgs
                     /\ UNCHANGED crashed
       ELSE /\ outbox' = << >>
            /\ UNCHANGED crashed
    /\ UNCHANGED <<conn, drivers, emergencies, hospitals, nextEmergencyId, hist>>

\* ----------------------------------------------------------- patient events
\* mutant: the patient is acknowledged after the broadcast
BroadcastThenAck(created, msgs) == msgs \o <<created>>

\* socket.emit('emergency:created', ...); broadcastToAvailableDrivers(emergency)
AckThenBroadcast(created, msgs) == <<created>> \o msgs

\* socket.on('patient:sos')
PatientSos(s, data) ==
    /\ Running
    /\ conn[s] = "open"
    /\ nextEmergencyId <= MaxEmergencies
    /\ lastEvent' = Event("patient:sos", s, 0, data)
    /\ IF data = Undefined
       THEN /\ Throws(<< >>)
            /\ UNCHANGED <<emergencies, nextEmergencyId>>
       ELSE LET emergencyId == nextEmergencyId
                emergency == [id |-> emergencyId,
                              patientSocketId |-> s,
                              location |-> IF data[1] = Undefined
                                           THEN DefaultLoc ELSE data[1],
                              status |-> "searching",
                              assignedDriver |-> NullDriver]
                b == BroadcastToAvailableDrivers(drivers, emergency)
                created == Emit("emergency:created", s, emergencyId, 0, << >>)
            IN  /\ nextEmergencyId' = nextEmergencyId + 1
                /\ emergencies' = (emergencyId :> emergency) @@ emergencies
                /\ IF b.threw THEN Throws(AckThenBroadcast(created, b.msgs))
                   ELSE /\ outbox' = AckThenBroadcast(created, b.msgs)
                        /\ UNCHANGED crashed
    /\ UNCHANGED <<conn, drivers, hospitals, hist>>

\* const driver = state.drivers.get(driverSocketId);
\* if (driver) driver.status = 'available'
FreeDriver(ds, driverSocketId) ==
    IF HasKey(ds, driverSocketId)
    THEN MapSet(ds, driverSocketId,
                [MapGet(ds, driverSocketId) EXCEPT !.status = "available"])
    ELSE ds

\* mutant: the owner of the emergency is not compared with the sender
CanCancelAnyone(s, e) ==
    e \in DOMAIN emergencies

\* if (emergency && emergency.patientSocketId === socket.id)
CanCancel(s, e) ==
    /\ e \in DOMAIN emergencies
    /\ emergencies[e].patientSocketId = s

\* mutant: the cancelled emergency is left in the Map
KeepEmergency(ems, e) == ems

\* state.emergencies.delete(emergencyId)
DeleteEmergency(ems, e) == [x \in DOMAIN ems \ {e} |-> ems[x]]

\* socket.on('patient:cancel')
PatientCancel(s, e) ==
    /\ Running
    /\ conn[s] = "open"
    /\ lastEvent' = Event("patient:cancel", s, e, Undefined)
    /\ IF CanCancel(s, e)
       THEN LET emergency == emergencies[e]
                driverSocketId == emergency.assignedDriver.socketId
            IN  /\ IF emergency.assignedDriver # NullDriver
                   THEN /\ outbox' = <<Emit("emergency:cancelled", driverSocketId,
                                           e, 0, << >>)>>
                        /\ drivers' = FreeDriver(drivers, driverSocketId)
                   ELSE /\ outbox' = << >>
                        /\ UNCHANGED drivers
                /\ emergencies' =
                     DeleteEmergency([emergencies EXCEPT ![e].status = "cancelled"], e)
                /\ hist' = [hist EXCEPT ![e].cancelled = TRUE]
       ELSE /\ outbox' = << >>
            /\ UNCHANGED <<drivers, emergencies, hist>>
    /\ UNCHANGED <<conn, hospitals, nextEmergencyId, crashed>>

\* ---------------------------------------------------------- hospital events
\* socket.on('hospital:register')
HospitalRegister(s, data) ==
    /\ Running
    /\ conn[s] = "open"
    /\ lastEvent' = Event("hospital:register", s, 0, data)
    /\ IF data = Undefined
       THEN /\ Throws(<< >>)
            /\ UNCHANGED hospitals
       ELSE /\ hospitals' = MapSet(hospitals, s, [socketId |-> s])
            /\ outbox' = <<Emit("hospital:registered", s, 0, 0, << >>)>>
            /\ UNCHANGED crashed
    /\ UNCHANGED <<conn, drivers, emergencies, nextEmergencyId, hist>>

\* ---------------------------------------------------------------- disconnect
\* socket.on('disconnect')
Disconnect(s) ==
    /\ Running
    /\ conn[s] = "open"
    /\ lastEvent' = Event("disconnect", s, 0, Undefined)
    /\ conn' = [conn EXCEPT ![s] = "closed"]
    /\ drivers' = IF HasKey(drivers, s) THEN MapDelete(drivers, s) ELSE drivers
    /\ hospitals' = IF HasKey(hospitals, s) THEN MapDelete(hospitals, s)
                    ELSE hospitals
    /\ outbox' = << >>
    /\ UNCHANGED <<emergencies, nextEmergencyId, crashed, hist>>

Next ==
    \/ \E s \in Sockets : Connection(s)
    \/ \E s \in Sockets, data \in Payloads : DriverRegister(s, data)
    \/ \E s \in Sockets, l \in Locs \cup {Undefined} : DriverUpdateLocation(s, l)
    \/ \E s \in Sockets, e \in NameableIds(nextEmergencyId) : DriverAccept(s, e)
    \/ \E s \in Sockets, e \in NameableIds(nextEmergencyId) : DriverReject(s, e)
    \/ \E s \in Sockets, data \in Payloads : PatientSos(s, data)
    \/ \E s \in Sockets, e \in NameableIds(nextEmergencyId) : PatientCancel(s, e)
    \/ \E s \in Sockets, data \in Payloads : HospitalRegister(s, data)
    \/ \E s \in Sockets : Disconnect(s)

Spec == Init /\ [][Next]_vars

\* ------------------------------------------------------------ observations
\* positions in box of the messages `name` about emergency e
Sent(box, name, e) ==
    {i \in 1..Len(box) : box[i].event = name /\ box[i].emergencyId = e}

\* sockets whose driver record is 'available'
AvailableDrivers(ds) ==
    {ds[i].socketId : i \in {j \in 1..Len(ds) : ds[j].status = "available"}}

\* accepted emergencies whose assignedDriver belongs to socket d
AcceptedBy(d) ==
    {e \in DOMAIN emergencies :
        /\ emergencies[e].status = "accepted"
        /\ emergencies[e].assignedDriver.socketId = d}

\* the state of request e: in the ledger its status, after patient:cancel
\* 'cancelled' (the handler sets it and drops the entry), else not created
StatusOf(ems, h, e) ==
    IF e \in DOMAIN ems THEN ems[e].status
    ELSE IF h[e].cancelled THEN "cancelled" ELSE "none"

\* ------------------------------------------------------------------ claims
\* C1: at most one accept ever commits per request. Once a request has an
\* assigned responder no later event changes it, and neither a second
\* emergency:driver-assigned (matched) nor a second driver:assignment-confirmed
\* (matchConfirmed) is ever emitted for its id.
C1_AtMostOneMatch ==
    [][\A e \in EmergencyIds :
         /\ (e \in DOMAIN emergencies
              /\ emergencies[e].assignedDriver # NullDriver)
            => /\ e \in DOMAIN emergencies'
                    => emergencies'[e].assignedDriver
                         = emergencies[e].assignedDriver
               /\ Sent(outbox', "emergency:driver-assigned", e) = {}
               /\ Sent(outbox', "driver:assignment-confirmed", e) = {}
         /\ Cardinality(Sent(outbox', "emergency:driver-assigned", e)) <= 1
         /\ Cardinality(Sent(outbox', "driver:assignment-confirmed", e)) <= 1
         /\ hist'[e].assigned <= 1
         /\ hist'[e].confirmed <= 1]_vars

\* a registered responder's accept was processed for a request that another
\* responder had already won, and was discarded
C1_LateAcceptDiscarded ==
    \E e \in DOMAIN emergencies :
        /\ lastEvent.name = "driver:accept"
        /\ lastEvent.emergencyId = e
        /\ HasKey(drivers, lastEvent.socket)
        /\ emergencies[e].status = "accepted"
        /\ emergencies[e].assignedDriver.socketId # lastEvent.socket
        /\ hist[e].confirmed = 1
        /\ outbox = << >>

\* C2: after a connection's disconnect has been processed, no request owned
\* by it remains in the ledger (the ledger holds searching and accepted
\* requests only).
C2_DisconnectCancelsRequests ==
    \A e \in DOMAIN emergencies :
        conn[emergencies[e].patientSocketId] # "closed"

\* C3: once the requester of a searching request has disconnected, an accept
\* for that request from any responder fails: the request is not moved to
\* accepted, the accepting responder's record is left as it was, and no
\* driver:assignment-confirmed is sent.
C3_LateAcceptAfterDisconnectFails ==
    [][\A e \in DOMAIN emergencies :
         (/\ lastEvent'.name = "driver:accept"
          /\ lastEvent'.emergencyId = e
          /\ emergencies[e].status = "searching"
          /\ conn[emergencies[e].patientSocketId] = "closed")
         => /\ e \in DOMAIN emergencies'
            /\ emergencies'[e].status = "searching"
            /\ drivers' = drivers
            /\ Sent(outbox', "driver:assignment-confirmed", e) = {}]_vars

\* C4: every driver record that is busy is the assigned responder of exactly
\* one accepted request.
C4_BusyMeansExactlyOneRequest ==
    \A i \in 1..Len(drivers) :
        drivers[i].status = "busy"
        => Cardinality(AcceptedBy(drivers[i].socketId)) = 1

\* C5: no driver record that is available is, by its owning connection, the
\* assigned responder of an accepted request.
C5_AvailableMeansUnassigned ==
    \A i \in 1..Len(drivers) :
        drivers[i].status = "available"
        => AcceptedBy(drivers[i].socketId) = {}

\* C6: when the requester of an accepted request disconnects, the assigned
\* responder (if still registered) becomes available and is sent
\* emergency:cancelled for that request.
C6_RequesterDisconnectFreesResponder ==
    [][\A e \in DOMAIN emergencies :
         LET d == emergencies[e].assignedDriver.socketId
         IN  (/\ lastEvent'.name = "disconnect"
              /\ lastEvent'.socket = emergencies[e].patientSocketId
              /\ emergencies[e].status = "accepted"
              /\ HasKey(drivers', d))
             => /\ MapGet(drivers', d).status = "available"
                /\ \E i \in Sent(outbox', "emergency:cancelled", e) :
                       outbox'[i].to = d]_vars

\* C7: a cancel by the owner of an accepted request whose responder is still
\* registered makes that responder available and sends exactly one
\* emergency:cancelled, to that responder; a cancel of a searching request
\* sends none; and the next newRequest is offered to the freed responder.
C7_CancelFreesResponder ==
    [][/\ \A e \in DOMAIN emergencies :
            LET d == emergencies[e].assignedDriver.socketId
            IN  (/\ lastEvent'.name = "patient:cancel"
                 /\ lastEvent'.emergencyId = e
                 /\ lastEvent'.socket = emergencies[e].patientSocketId)
                => /\ (emergencies[e].status = "accepted" /\ HasKey(drivers, d))
                        => /\ MapGet(drivers', d).status = "available"
                           /\ outbox' = <<Emit("emergency:cancelled", d, e,
                                               0, << >>)>>
                   /\ emergencies[e].status = "searching" => outbox' = << >>
       /\ \A d \in Sockets :
            (/\ lastEvent.name = "patient:cancel"
             /\ outbox = <<Emit("emergency:cancelled", d,
                                 lastEvent.emergencyId, 0, << >>)>>
             /\ HasKey(drivers, d)
             /\ lastEvent'.name = "patient:sos"
             /\ nextEmergencyId' # nextEmergencyId)
            => \E i \in Sent(outbox', "emergency:new-request", nextEmergencyId) :
                   outbox'[i].to = d]_vars

\* C8: a request's state changes only along none -> searching (patient:sos),
\* searching -> accepted (a committed driver:accept), searching -> cancelled
\* and accepted -> cancelled (patient:cancel); an accept commits only on a
\* request that is searching.
C8_Lifecycle ==
    [][\A e \in EmergencyIds :
         LET old == StatusOf(emergencies, hist, e)
             new == StatusOf(emergencies', hist', e)
         IN  /\ old # new
                => <<old, new>> \in {<<"none", "searching">>,
                                     <<"searching", "accepted">>,
                                     <<"searching", "cancelled">>,
                                     <<"accepted", "cancelled">>}
             /\ new = "accepted" /\ old # "accepted"
                => lastEvent' = Event("driver:accept", lastEvent'.socket, e,
                                      Undefined)
             /\ new = "cancelled" /\ old # "cancelled"
                => lastEvent' = Event("patient:cancel", lastEvent'.socket, e,
                                      Undefined)
             /\ Sent(outbox', "driver:assignment-confirmed", e) # {}
                => old = "searching" /\ new = "accepted"]_vars

\* a request went searching -> accepted -> cancelled
C8_AcceptedThenCancelled ==
    \E e \in EmergencyIds :
        /\ lastEvent = Event("patient:cancel", lastEvent.socket, e, Undefined)
        /\ StatusOf(emergencies, hist, e) = "cancelled"
        /\ hist[e].confirmed = 1

\* C9: every request in the ledger has a non-null assigned responder if and
\* only if its status is accepted.
C9_AssignedIffAccepted ==
    \A e \in DOMAIN emergencies :
        emergencies[e].assignedDriver # NullDriver
        <=> emergencies[e].status = "accepted"

\* the ledger holds an accepted request next to a searching one
C9_AcceptedAndSearching ==
    \E e, f \in DOMAIN emergencies :
        /\ emergencies[e].status = "accepted"
        /\ emergencies[e].assignedDriver.socketId \in Sockets
        /\ emergencies[f].status = "searching"

\* C10: a newRequest processed while no driver is available sends the patient
\* exactly one emergency:no-drivers, sends no emergency:new-request, and leaves
\* the request in the ledger as searching; with a driver available no
\* emergency:no-drivers is sent.
C10_NoDriversPath ==
    (lastEvent.name = "patient:sos" /\ outbox # << >>)
    => LET e == nextEmergencyId - 1
           p == lastEvent.socket
       IN  IF AvailableDrivers(drivers) = {}
           THEN /\ outbox = <<Emit("emergency:created", p, e, 0, << >>),
                              Emit("emergency:no-drivers", p, e, 0, << >>)>>
                /\ e \in DOMAIN emergencies
                /\ emergencies[e].status = "searching"
                /\ emergencies[e].patientSocketId = p
           ELSE \A i \in 1..Len(outbox) :
                    outbox[i].event # "emergency:no-drivers"

\* a newRequest was processed while every registered driver was busy
C10_AllBusy ==
    /\ lastEvent.name = "patient:sos"
    /\ drivers # << >>
    /\ AvailableDrivers(drivers) = {}
    /\ Sent(outbox, "emergency:no-drivers", nextEmergencyId - 1) # {}

\* C11: when a patient:sos that creates a request is processed, the sockets
\* sent emergency:new-request for it are exactly the drivers whose status is
\* available at that moment, and each of them is sent exactly one.
C11_OffersToExactlyAvailable ==
    [][(lastEvent'.name = "patient:sos" /\ nextEmergencyId' # nextEmergencyId)
       => LET offers == Sent(outbox', "emergency:new-request", nextEmergencyId)
          IN  /\ {outbox'[i].to : i \in offers} = AvailableDrivers(drivers)
              /\ Cardinality(offers) = Cardinality(AvailableDrivers(drivers))]_vars

\* C12: when a driver:accept commits (the request goes searching -> accepted),
\* in the same step the accepting driver becomes busy, exactly one
\* emergency:driver-assigned naming that driver is sent, to the request's
\* patient socket, exactly one driver:assignment-confirmed is sent, to the
\* accepting socket, and the driver named is the request's assignedDriver.
C12_CommitEvents ==
    [][\A e \in DOMAIN emergencies :
         (/\ lastEvent'.name = "driver:accept"
          /\ lastEvent'.emergencyId = e
          /\ emergencies[e].status = "searching"
          /\ e \in DOMAIN emergencies'
          /\ emergencies'[e].status = "accepted")
         => LET s == lastEvent'.socket
                matched == {i \in 1..Len(outbox') :
                              outbox'[i].event = "emergency:driver-assigned"}
                confirmed == {i \in 1..Len(outbox') :
                                outbox'[i].event = "driver:assignment-confirmed"}
            IN  /\ HasKey(drivers', s)
                /\ MapGet(drivers', s).status = "busy"
                /\ Cardinality(matched) = 1
                /\ \A i \in matched :
                       /\ outbox'[i].to = emergencies[e].patientSocketId
                       /\ outbox'[i].emergencyId = e
                       /\ outbox'[i].driver = s
                       /\ outbox'[i].driver = emergencies'[e].assignedDriver.socketId
                /\ Cardinality(confirmed) = 1
                /\ \A i \in confirmed :
                       outbox'[i].to = s /\ outbox'[i].emergencyId = e]_vars

\* an accept committed with a hospital registered and the patient on another
\* socket than the driver
C12_Committed ==
    \E e \in DOMAIN emergencies :
        /\ lastEvent = Event("driver:accept", lastEvent.socket, e, Undefined)
        /\ emergencies[e].status = "accepted"
        /\ emergencies[e].assignedDriver.socketId = lastEvent.socket
        /\ emergencies[e].patientSocketId # lastEvent.socket
        /\ Len(outbox) = 3

\* C13: a driver:accept naming a request that is not searching (accepted
\* already, cancelled, or an unknown id) changes no driver, no emergency and no
\* hospital, and emits nothing: no emergency:driver-assigned, no
\* driver:assignment-confirmed, no hospital:incoming-patient.
C13_FailedAcceptIsNoOp ==
    [][\A e \in NameableIds(nextEmergencyId) :
         (/\ lastEvent'.name = "driver:accept"
          /\ lastEvent'.emergencyId = e
          /\ ~(e \in DOMAIN emergencies /\ emergencies[e].status = "searching"))
         => /\ drivers' = drivers
            /\ emergencies' = emergencies
            /\ hospitals' = hospitals
            /\ hist' = hist
            /\ outbox' = << >>
            /\ ~crashed']_vars

\* a registered, available driver's accept was processed for a request that had
\* been cancelled, with a hospital registered
C13_AcceptOfCancelled ==
    \E e \in EmergencyIds :
        /\ lastEvent = Event("driver:accept", lastEvent.socket, e, Undefined)
        /\ hist[e].cancelled
        /\ lastEvent.socket \in AvailableDrivers(drivers)
        /\ hospitals # << >>
        /\ outbox = << >>

\* C14: of two registered drivers accepting the same searching request, the one
\* whose driver:accept is processed first becomes the assignedDriver, is the
\* only one sent driver:assignment-confirmed and becomes busy; the other's
\* accept, processed later, leaves the assignment, its own record (still
\* available) and every other record as they were and is sent nothing.
C14_FirstProcessedWins ==
    [][\A e \in DOMAIN emergencies :
         (lastEvent'.name = "driver:accept" /\ lastEvent'.emergencyId = e
          /\ HasKey(drivers, lastEvent'.socket))
         => LET r == lastEvent'.socket IN
            /\ emergencies[e].status = "searching"
               => /\ emergencies'[e].assignedDriver.socketId = r
                  /\ MapGet(drivers', r).status = "busy"
                  /\ \A i \in Sent(outbox', "driver:assignment-confirmed", e) :
                         outbox'[i].to = r
                  /\ \A d \in Sockets \ {r} :
                         /\ HasKey(drivers', d) <=> HasKey(drivers, d)
                         /\ HasKey(drivers, d)
                            => MapGet(drivers', d) = MapGet(drivers, d)
            /\ (emergencies[e].status = "accepted"
                  /\ emergencies[e].assignedDriver.socketId # r)
               => /\ emergencies' = emergencies
                  /\ drivers' = drivers
                  /\ outbox' = << >>]_vars

\* both drivers were available, the first accept won, and the second driver's
\* accept has just been discarded
C14_LoserStaysAvailable ==
    \E e \in DOMAIN emergencies :
        LET r1 == emergencies[e].assignedDriver.socketId
            r2 == lastEvent.socket
        IN  /\ lastEvent = Event("driver:accept", r2, e, Undefined)
            /\ emergencies[e].status = "accepted"
            /\ r1 # r2
            /\ HasKey(drivers, r1) /\ MapGet(drivers, r1).status = "busy"
            /\ r2 \in AvailableDrivers(drivers)
            /\ hist[e].confirmed = 1
            /\ outbox = << >>

\* C15: a patient:cancel naming an id that was never handed out, or a request
\* that was cancelled before, leaves drivers, emergencies and hospitals as they
\* were, emits nothing and throws nothing; so a second cancel of the same
\* request adds nothing to the first.
C15_IdempotentCancel ==
    [][\A e \in NameableIds(nextEmergencyId) :
         (/\ lastEvent'.name = "patient:cancel"
          /\ lastEvent'.emergencyId = e
          /\ (e >= nextEmergencyId \/ hist[e].cancelled))
         => /\ drivers' = drivers
            /\ emergencies' = emergencies
            /\ hospitals' = hospitals
            /\ hist' = hist
            /\ outbox' = << >>
            /\ ~crashed']_vars

\* the owner's second cancel of a request that was accepted when first
\* cancelled (the first cancel emitted emergency:cancelled, this one nothing)
C15_SecondCancel ==
    \E e \in EmergencyIds :
        /\ lastEvent = Event("patient:cancel", lastEvent.socket, e, Undefined)
        /\ hist[e].cancelled
        /\ hist[e].confirmed = 1
        /\ outbox = << >>

\* C16: no emergency:new-request is ever sent to a socket that has
\* disconnected; a disconnect changes no emergency and emits nothing (so
\* nothing to the patient of a request its driver held); and an accepted
\* request whose assigned driver has disconnected keeps its status and its
\* assignment for as long as it is in the ledger, leaving it only by its
\* owner's patient:cancel.
C16_ResponderDisconnect ==
    [][/\ \A i \in 1..Len(outbox') :
            outbox'[i].event = "emergency:new-request"
            => conn'[outbox'[i].to] = "open"
       /\ lastEvent'.name = "disconnect"
            => emergencies' = emergencies /\ outbox' = << >>
       /\ \A e \in DOMAIN emergencies :
            (/\ emergencies[e].status = "accepted"
             /\ conn[emergencies[e].assignedDriver.socketId] = "closed")
            => IF e \in DOMAIN emergencies'
               THEN emergencies'[e] = emergencies[e]
               ELSE lastEvent' = Event("patient:cancel",
                                       emergencies[e].patientSocketId, e,
                                       Undefined)]_vars

\* a request was broadcast after the driver holding an accepted request had
\* disconnected
C16_BroadcastAfterDriverLeft ==
    \E e \in DOMAIN emergencies :
        /\ emergencies[e].status = "accepted"
        /\ conn[emergencies[e].assignedDriver.socketId] = "closed"
        /\ lastEvent.name = "patient:sos"
        /\ nextEmergencyId - 1 \in DOMAIN emergencies
        /\ nextEmergencyId - 1 # e
        /\ outbox # << >>

\* a payload with a required field missing: no payload at all, or an object
\* without its location
Malformed == {Undefined, <<Undefined>>}

\* C17: a patient:sos or a driver:register whose payload lacks a required
\* field is rejected: no emergency and no driver record is created or changed,
\* nothing shared is written, and nothing is sent to any socket but the sender.
C17_MalformedRejected ==
    [][\A s \in Sockets, data \in Malformed :
         (PatientSos(s, data) \/ DriverRegister(s, data))
         => /\ emergencies' = emergencies
            /\ drivers' = drivers
            /\ hospitals' = hospitals
            /\ nextEmergencyId' = nextEmergencyId
            /\ \A i \in 1..Len(outbox') : outbox'[i].to = s]_vars

\* C18: whatever malformed events other connections have sent, a patient:sos
\* with a payload is processed to the end: the handler does not throw, the
\* emergency is in the ledger, emergency:created is sent to the patient, and
\* either every available driver is sent emergency:new-request or the patient
\* is sent emergency:no-drivers.
C18_MalformedInputIsContained ==
    [][\A p \in Sockets :
         (/\ lastEvent' = Event("patient:sos", p, 0, Undefined)
          /\ nextEmergencyId' # nextEmergencyId
          /\ ~(HasKey(drivers, p) /\ MapGet(drivers, p).location = Undefined))
         => LET e == nextEmergencyId
                offers == Sent(outbox', "emergency:new-request", e)
            IN  /\ ~crashed'
                /\ e \in DOMAIN emergencies'
                /\ Sent(outbox', "emergency:created", e) # {}
                /\ IF AvailableDrivers(drivers) = {}
                   THEN Sent(outbox', "emergency:no-drivers", e) # {}
                   ELSE {outbox'[i].to : i \in offers}
                          = AvailableDrivers(drivers)]_vars

\* C19: a patient:cancel naming a request in the ledger, sent by a socket other
\* than the request's patient socket, changes no emergency (the request stays,
\* with its status and assigned driver), no driver and no hospital, and emits
\* nothing.
C19_ForeignCancelIsNoOp ==
    [][\A e \in DOMAIN emergencies :
         (/\ lastEvent' = Event("patient:cancel", lastEvent'.socket, e, Undefined)
          /\ lastEvent'.socket # emergencies[e].patientSocketId)
         => /\ emergencies' = emergencies
            /\ drivers' = drivers
            /\ hospitals' = hospitals
            /\ hist' = hist
            /\ outbox' = << >>]_vars

\* the assigned driver itself tried to cancel the accepted request of another
\* socket, and is still busy on it
C19_ForeignCancelOfAccepted ==
    \E e \in DOMAIN emergencies :
        /\ lastEvent = Event("patient:cancel", lastEvent.socket, e, Undefined)
        /\ emergencies[e].patientSocketId # lastEvent.socket
        /\ emergencies[e].status = "accepted"
        /\ emergencies[e].assignedDriver.socketId = lastEvent.socket
        /\ HasKey(drivers, lastEvent.socket)
        /\ MapGet(drivers, lastEvent.socket).status = "busy"
        /\ outbox = << >>

\* C20: every emergency:new-request and every emergency:no-drivers emitted by
\* a handler names a request that is searching; a driver:reject naming an
\* accepted request sends neither.
C20_OffersOnlyWhileSearching ==
    \A i \in 1..Len(outbox) :
        outbox[i].event \in {"emergency:new-request", "emergency:no-drivers"}
        => /\ outbox[i].emergencyId \in DOMAIN emergencies
           /\ emergencies[outbox[i].emergencyId].status = "searching"

\* C21: when a driver rejects a searching request, the re-broadcast made by
\* its driver:reject sends that driver no emergency:new-request for the
\* request it has just rejected.
C21_RejecterNotReoffered ==
    [][\A e \in DOMAIN emergencies :
         (/\ lastEvent' = Event("driver:reject", lastEvent'.socket, e, Undefined)
          /\ emergencies[e].status = "searching"
          /\ HasKey(drivers, lastEvent'.socket))
         => \A i \in Sent(outbox', "emergency:new-request", e) :
                outbox'[i].to # lastEvent'.socket]_vars

\* hospital:incoming-patient messages of box, by position
Incoming(box) ==
    {i \in 1..Len(box) : box[i].event = "hospital:incoming-patient"}

\* C22: when a driver:accept commits, every hospital registered at that moment
\* is sent exactly one hospital:incoming-patient for the request, and no socket
\* that has disconnected is sent one; hospital:incoming-patient is emitted by
\* no other step, so a hospital gets at most one per request.
C22_FacilityFanOut ==
    [][/\ \A e \in DOMAIN emergencies :
            (/\ lastEvent'.name = "driver:accept"
             /\ lastEvent'.emergencyId = e
             /\ emergencies[e].status = "searching"
             /\ emergencies'[e].status = "accepted")
            => /\ \A i \in Incoming(outbox') : outbox'[i].emergencyId = e
               /\ \A h \in 1..Len(hospitals) :
                    Cardinality({i \in Incoming(outbox') :
                                   outbox'[i].to = hospitals[h].socketId}) = 1
               /\ Cardinality(Incoming(outbox')) = Len(hospitals)
       /\ \A i \in Incoming(outbox') :
            LET e == outbox'[i].emergencyId IN
            /\ conn'[outbox'[i].to] = "open"
            /\ lastEvent' = Event("driver:accept", lastEvent'.socket, e, Undefined)
            /\ hist[e].assigned = 0
            /\ hist'[e].assigned = 1]_vars

\* an accept committed while two hospitals were registered
C22_TwoHospitalsNotified ==
    /\ lastEvent.name = "driver:accept"
    /\ Len(hospitals) = 2
    /\ Cardinality(Incoming(outbox)) = 2

\* C23: a searching request stops being searching only by a driver:accept
\* naming it (it becomes accepted) or by its owner's patient:cancel (it is
\* removed); emergency:new-request for a request is emitted only by the
\* patient:sos that creates it or by a driver:reject naming it, so a
\* driver:register or driver:update-location emits no offer for a pending one.
C23_NoTimeoutNoLateOffer ==
    [][/\ \A e \in DOMAIN emergencies :
            (/\ emergencies[e].status = "searching"
             /\ StatusOf(emergencies', hist', e) # "searching")
            => \/ /\ lastEvent' = Event("driver:accept", lastEvent'.socket, e,
                                        Undefined)
                  /\ StatusOf(emergencies', hist', e) = "accepted"
               \/ /\ lastEvent' = Event("patient:cancel",
                                        emergencies[e].patientSocketId, e,
                                        Undefined)
                  /\ StatusOf(emergencies', hist', e) = "cancelled"
       /\ \A i \in 1..Len(outbox') :
            outbox'[i].event = "emergency:new-request"
            => \/ /\ lastEvent'.name = "patient:sos"
                  /\ outbox'[i].emergencyId = nextEmergencyId
                  /\ nextEmergencyId' = nextEmergencyId + 1
               \/ lastEvent' = Event("driver:reject", lastEvent'.socket,
                                     outbox'[i].emergencyId, Undefined)]_vars

\* a driver registered while a request was pending and was offered nothing
C23_RegisteredWhilePending ==
    /\ lastEvent.name = "driver:register"
    /\ \E e \in DOMAIN emergencies : emergencies[e].status = "searching"
    /\ lastEvent.socket \in AvailableDrivers(drivers)
    /\ outbox = <<Emit("driver:registered", lastEvent.socket, 0,
                       lastEvent.socket, << >>)>>

\* C24: every request in the ledger is searching or accepted, and a request
\* that has been cancelled is not in the ledger: the cancel that marks it
\* removes it in the same step.
C24_LedgerHoldsLiveRequests ==
    /\ \A e \in DOMAIN emergencies :
           emergencies[e].status \in {"searching", "accepted"}
    /\ \A e \in EmergencyIds : hist[e].cancelled => e \notin DOMAIN emergencies

\* a driver:reject named a cancelled request and found nothing to re-broadcast,
\* while another request was in the ledger
C24_RejectOfCancelled ==
    \E e \in EmergencyIds :
        /\ lastEvent = Event("driver:reject", lastEvent.socket, e, Undefined)
        /\ hist[e].cancelled
        /\ emergencies # << >>
        /\ outbox = << >>

\* C25: emergency:created for a request is sent once, to its patient, by the
\* patient:sos that creates it, ahead of every emergency:new-request and
\* emergency:no-drivers for the same id.
C25_CreatedOnceAndFirst ==
    [][/\ (lastEvent'.name = "patient:sos" /\ nextEmergencyId' # nextEmergencyId)
          => /\ Sent(outbox', "emergency:created", nextEmergencyId) = {1}
             /\ outbox'[1].to = lastEvent'.socket
       /\ \A i \in 1..Len(outbox') :
            LET x == outbox'[i].emergencyId IN
            /\ outbox'[i].event = "emergency:created"
               => /\ lastEvent'.name = "patient:sos"
                  /\ x = nextEmergencyId
                  /\ nextEmergencyId' = nextEmergencyId + 1
            /\ outbox'[i].event \in {"emergency:new-request",
                                     "emergency:no-drivers"}
               => \/ x < nextEmergencyId
                  \/ \E j \in Sent(outbox', "emergency:created", x) : j < i]_vars

\* a request was acknowledged and then offered to two drivers
C25_AckThenTwoOffers ==
    /\ lastEvent.name = "patient:sos"
    /\ Len(outbox) = 3
    /\ outbox[1].event = "emergency:created"
    /\ outbox[2].event = "emergency:new-request"
    /\ outbox[3].event = "emergency:new-request"
    /\ outbox[2].to # outbox[3].to

\* C26: a driver:register with a payload leaves exactly one driver record for
\* the sending socket, with status available, whatever record the socket had
\* before (a busy one included); the records of the other sockets and the
\* emergencies are left as they were.
C26_RegisterReplacesRecord ==
    [][\A s \in Sockets, data \in Payloads \ {Undefined} :
         DriverRegister(s, data)
         => /\ Cardinality({i \in 1..Len(drivers') : drivers'[i].socketId = s}) = 1
            /\ MapGet(drivers', s).status = "available"
            /\ \A d \in Sockets \ {s} :
                 /\ Cardinality({i \in 1..Len(drivers') :
                                   drivers'[i].socketId = d})
                      = Cardinality({i \in 1..Len(drivers) :
                                       drivers[i].socketId = d})
                 /\ HasKey(drivers, d) => MapGet(drivers', d) = MapGet(drivers, d)
            /\ emergencies' = emergencies
            /\ hospitals' = hospitals]_vars

\* a busy driver registered again on its socket, next to another driver
C26_BusyDriverReregistered ==
    /\ lastEvent.name = "driver:register"
    /\ Len(drivers) = 2
    /\ lastEvent.socket \in AvailableDrivers(drivers)
    /\ AcceptedBy(lastEvent.socket) # {}

\* C27: a driver:accept, driver:reject, patient:cancel or disconnect from a
\* socket that has neither a driver nor a hospital record never throws; such a
\* driver:accept, even of a searching request, changes nothing and emits
\* nothing.
C27_NoRoleEventsAreSafe ==
    [][(/\ lastEvent'.name \in {"driver:accept", "driver:reject",
                                "patient:cancel", "disconnect"}
        /\ ~HasKey(drivers, lastEvent'.socket)
        /\ ~HasKey(hospitals, lastEvent'.socket))
       => /\ ~crashed'
          /\ lastEvent'.name = "driver:accept"
             => /\ drivers' = drivers
                /\ emergencies' = emergencies
                /\ hospitals' = hospitals
                /\ outbox' = << >>]_vars

\* the records of m in order, without the one keyed by k
Without(m, k) == SelectSeq(m, LAMBDA r : r.socketId # k)

\* C28: a disconnect removes the driver record and the hospital record keyed
\* by the disconnecting socket and leaves every other record, in drivers and
\* in hospitals, as it was; from a socket with no record it changes nothing and
\* throws nothing.
C28_DisconnectRemovesOwnRecords ==
    [][lastEvent'.name = "disconnect"
       => LET s == lastEvent'.socket IN
          /\ ~HasKey(drivers', s)
          /\ ~HasKey(hospitals', s)
          /\ drivers' = Without(drivers, s)
          /\ hospitals' = Without(hospitals, s)
          /\ (~HasKey(drivers, s) /\ ~HasKey(hospitals, s))
             => drivers' = drivers /\ hospitals' = hospitals
          /\ emergencies' = emergencies
          /\ ~crashed']_vars

\* the driver of an accepted request disconnected, and the driver record and
\* the hospital record of the other socket are still there
C28_OthersRecordsStay ==
    /\ lastEvent.name = "disconnect"
    /\ Len(drivers) = 1
    /\ Len(hospitals) = 1
    /\ \E e \in DOMAIN emergencies :
           /\ emergencies[e].status = "accepted"
           /\ emergencies[e].assignedDriver.socketId = lastEvent.socket

\* ------------------------------------------------- two runs, same events
\* PairSpec runs the server twice on the same sequence of events; the two runs
\* are given their own, valid, locations. A run is a record of the server's
\* state; the handlers below are the handlers above as functions of a run.
PairLocs == {<<0, 0>>, <<0, 1>>}

\* state = { drivers: new Map(), emergencies: new Map(), hospitals: new Map() },
\* with every socket connected
NewRun ==
    [conn |-> [s \in Sockets |-> "open"], drivers |-> << >>,
     emergencies |-> << >>, hospitals |-> << >>, nextEmergencyId |-> 1,
     outbox |-> << >>]

\* socket.on('driver:register') with a payload
Register(st, s, data) ==
    LET driver == [socketId |-> s,
                   location |-> IF data[1] = Undefined
                                THEN DefaultLoc ELSE data[1],
                   status |-> "available"]
    IN  [st EXCEPT !.drivers = MapSet(@, s, driver),
                   !.outbox = <<Emit("driver:registered", s, 0, s, << >>)>>]

\* socket.on('driver:update-location')
UpdateLocation(st, s, location) ==
    [st EXCEPT !.drivers = IF HasKey(@, s)
                           THEN MapSet(@, s, [MapGet(@, s) EXCEPT
                                                !.location = location])
                           ELSE @,
               !.outbox = << >>]

\* socket.on('driver:accept')
Accept(st, s, e) ==
    IF /\ HasKey(st.drivers, s)
       /\ e \in DOMAIN st.emergencies
       /\ st.emergencies[e].status = "searching"
    THEN LET driver == MapGet(st.drivers, s)
             emergency == st.emergencies[e]
         IN  [st EXCEPT
                !.drivers = MapSet(@, s, [driver EXCEPT !.status = "busy"]),
                !.emergencies = [@ EXCEPT ![e] = Assign(emergency, driver)],
                !.outbox =
                    <<Emit("emergency:driver-assigned",
                           emergency.patientSocketId, e, driver.socketId, << >>),
                      Emit("driver:assignment-confirmed", s, e, 0, << >>)>>
                    \o NotifyHospitals(st.hospitals, e)]
    ELSE [st EXCEPT !.outbox = << >>]

\* socket.on('driver:reject')
Reject(st, s, e) ==
    IF e \in DOMAIN st.emergencies
    THEN [st EXCEPT !.outbox =
            BroadcastToAvailableDrivers(st.drivers, st.emergencies[e]).msgs]
    ELSE [st EXCEPT !.outbox = << >>]

\* socket.on('patient:sos') with a payload
Sos(st, s, data) ==
    LET emergencyId == st.nextEmergencyId
        emergency == [id |-> emergencyId,
                      patientSocketId |-> s,
                      location |-> IF data[1] = Undefined
                                   THEN DefaultLoc ELSE data[1],
                      status |-> "searching",
                      assignedDriver |-> NullDriver]
        created == Emit("emergency:created", s, emergencyId, 0, << >>)
    IN  [st EXCEPT
           !.nextEmergencyId = @ + 1,
           !.emergencies = (emergencyId :> emergency) @@ @,
           !.outbox = AckThenBroadcast(created,
                        BroadcastToAvailableDrivers(st.drivers, emergency).msgs)]

\* socket.on('patient:cancel')
Cancel(st, s, e) ==
    IF e \in DOMAIN st.emergencies /\ st.emergencies[e].patientSocketId = s
    THEN LET emergency == st.emergencies[e]
             driverSocketId == emergency.assignedDriver.socketId
             assigned == emergency.assignedDriver # NullDriver
         IN  [st EXCEPT
                !.outbox = IF assigned
                           THEN <<Emit("emergency:cancelled", driverSocketId,
                                       e, 0, << >>)>>
                           ELSE << >>,
                !.drivers = IF assigned THEN FreeDriver(@, driverSocketId)
                            ELSE @,
                !.emergencies =
                    DeleteEmergency([@ EXCEPT ![e].status = "cancelled"], e)]
    ELSE [st EXCEPT !.outbox = << >>]

\* socket.on('hospital:register') with a payload
RegisterHospital(st, s) ==
    [st EXCEPT !.hospitals = MapSet(@, s, [socketId |-> s]),
               !.outbox = <<Emit("hospital:registered", s, 0, 0, << >>)>>]

\* socket.on('disconnect')
Close(st, s) ==
    [st EXCEPT !.conn[s] = "closed",
               !.drivers = IF HasKey(@, s) THEN MapDelete(@, s) ELSE @,
               !.hospitals = IF HasKey(@, s) THEN MapDelete(@, s) ELSE @,
               !.outbox = << >>]

PairInit ==
    /\ conn = [s \in Sockets |-> "new"]
    /\ drivers = << >>
    /\ emergencies = << >>
    /\ hospitals = << >>
    /\ nextEmergencyId = 1
    /\ outbox = << >>
    /\ lastEvent = Event("none", 0, 0, Undefined)
    /\ crashed = FALSE
    /\ steps = 0
    /\ hist = [e \in EmergencyIds |->
                 [assigned |-> 0, confirmed |-> 0, cancelled |-> FALSE]]
    /\ runs = [a |-> NewRun, b |-> NewRun, n |-> 0]

\* both runs take the same event from socket s, which is open in both
PairStep(s, a, b) ==
    /\ runs.n < MaxPairSteps
    /\ runs.a.conn[s] = "open"
    /\ runs' = [a |-> a, b |-> b, n |-> runs.n + 1]
    /\ UNCHANGED <<conn, drivers, emergencies, hospitals, nextEmergencyId,
                   outbox, lastEvent, crashed, steps, hist>>

PairRegister(s, la, lb) ==
    PairStep(s, Register(runs.a, s, <<la>>), Register(runs.b, s, <<lb>>))

PairUpdateLocation(s, la, lb) ==
    PairStep(s, UpdateLocation(runs.a, s, la), UpdateLocation(runs.b, s, lb))

PairAccept(s, e) ==
    PairStep(s, Accept(runs.a, s, e), Accept(runs.b, s, e))

PairReject(s, e) ==
    PairStep(s, Reject(runs.a, s, e), Reject(runs.b, s, e))

PairSos(s, la, lb) ==
    /\ runs.a.nextEmergencyId <= MaxEmergencies
    /\ PairStep(s, Sos(runs.a, s, <<la>>), Sos(runs.b, s, <<lb>>))

PairCancel(s, e) ==
    PairStep(s, Cancel(runs.a, s, e), Cancel(runs.b, s, e))

PairRegisterHospital(s) ==
    PairStep(s, RegisterHospital(runs.a, s), RegisterHospital(runs.b, s))

PairClose(s) ==
    PairStep(s, Close(runs.a, s), Close(runs.b, s))

PairNext ==
    \/ \E s \in Sockets, la, lb \in PairLocs : PairRegister(s, la, lb)
    \/ \E s \in Sockets, la, lb \in PairLocs : PairUpdateLocation(s, la, lb)
    \/ \E s \in Sockets, e \in NameableIds(runs.a.nextEmergencyId) :
           PairAccept(s, e)
    \/ \E s \in Sockets, e \in NameableIds(runs.a.nextEmergencyId) :
           PairReject(s, e)
    \/ \E s \in Sockets, la, lb \in PairLocs : PairSos(s, la, lb)
    \/ \E s \in Sockets, e \in NameableIds(runs.a.nextEmergencyId) :
           PairCancel(s, e)
    \/ \E s \in Sockets : PairRegisterHospital(s)
    \/ \E s \in Sockets : PairClose(s)

PairSpec == PairInit /\ [][PairNext]_vars

\* a run with every location and every distance annotation blanked
Erase(st) ==
    [st EXCEPT
       !.drivers = [i \in 1..Len(@) |-> [@[i] EXCEPT !.location = DefaultLoc]],
       !.emergencies = [e \in DOMAIN @ |-> [@[e] EXCEPT !.location = DefaultLoc]],
       !.outbox = [i \in 1..Len(@) |-> [@[i] EXCEPT !.distance = << >>]]]

\* C29: two runs of the server that process the same events and differ only
\* in the valid locations of drivers and requests agree on everything but
\* locations and the distance carried by emergency:new-request: the same
\* messages to the same sockets, the same emergencies with the same status and
\* assigned driver, the same driver records with the same status.
C29_LocationsDecideNothing ==
    runs # << >> => Erase(runs.a) = Erase(runs.b)

\* the two runs have broadcast the same request to two drivers with
\* different distance annotations
C29_RunsDifferInDistance ==
    /\ runs # << >>
    /\ Len(runs.a.outbox) = 3
    /\ runs.a.outbox[2].event = "emergency:new-request"
    /\ runs.a.outbox[3].event = "emergency:new-request"
    /\ runs.a.outbox[2].distance # runs.b.outbox[2].distance
    /\ runs.a.outbox[3].distance # runs.b.outbox[3].distance

\* C30: the distance carried by each emergency:new-request is the distance
\* from the location the receiving driver's record holds at the broadcast (its
\* registration's, or its latest driver:update-location's) to the request's
\* location: each recipient gets its own estimate.
C30_DistanceIsRecipientsOwn ==
    runs # << >>
    => \A i \in 1..Len(runs.a.outbox) :
           LET m == runs.a.outbox[i] IN
           m.event = "emergency:new-request"
           => /\ HasKey(runs.a.drivers, m.to)
              /\ m.emergencyId \in DOMAIN runs.a.emergencies
              /\ m.distance =
                   <<CalculateDistance(MapGet(runs.a.drivers, m.to).location,
                                       runs.a.emergencies[m.emergencyId].location)>>

\* one broadcast reached two drivers at different places with different
\* distances
C30_TwoEstimates ==
    /\ runs # << >>
    /\ \E i, j \in 1..Len(runs.a.outbox) :
           /\ runs.a.outbox[i].event = "emergency:new-request"
           /\ runs.a.outbox[j].event = "emergency:new-request"
           /\ runs.a.outbox[i].emergencyId = runs.a.outbox[j].emergencyId
           /\ runs.a.outbox[i].distance # runs.a.outbox[j].distance

\* --------------------------------------------- calculateDistance on a grid
\* DistanceSpec draws two points from a grid of whole degrees and calls
\* calculateDistance on them in both orders and on the first point with itself.
GridSize == 2

\* { lat, lng } at every twentieth degree, both hemispheres
Grid == {<<20 * i, 20 * j>> : i, j \in (0 - GridSize)..GridSize}

DistanceInit ==
    /\ conn = [s \in Sockets |-> "new"]
    /\ drivers = << >>
    /\ emergencies = << >>
    /\ hospitals = << >>
    /\ nextEmergencyId = 1
    /\ outbox = << >>
    /\ lastEvent = Event("none", 0, 0, Undefined)
    /\ crashed = FALSE
    /\ steps = 0
    /\ hist = [e \in EmergencyIds |->
                 [assigned |-> 0, confirmed |-> 0, cancelled |-> FALSE]]
    /\ runs \in {[loc1 |-> p, loc2 |-> q, called |-> FALSE,
                  forth |-> 0, back |-> 0, self |-> 0] : p, q \in Grid}

\* calculateDistance(loc1, loc2), calculateDistance(loc2, loc1) and
\* calculateDistance(loc1, loc1)
Measure ==
    /\ ~runs.called
    /\ runs' = [runs EXCEPT !.called = TRUE,
                            !.forth = CalculateDistance(runs.loc1, runs.loc2),
                            !.back = CalculateDistance(runs.loc2, runs.loc1),
                            !.self = CalculateDistance(runs.loc1, runs.loc1)]
    /\ UNCHANGED <<conn, drivers, emergencies, hospitals, nextEmergencyId,
                   outbox, lastEvent, crashed, steps, hist>>

DistanceNext == Measure

DistanceSpec == DistanceInit /\ [][DistanceNext]_vars

\* C31: the estimate is a function of the two points alone, the same in either
\* order of the points, and 0 from a point to itself.
C31_DistanceSymmetric ==
    runs.called =>
        /\ runs.forth = CalculateDistance(runs.loc1, runs.loc2)
        /\ runs.forth = runs.back
        /\ runs.self = 0

\* C31 witness: a non-zero estimate between two points on different latitudes
\* and different longitudes has been computed in both orders.
C31_DifferentLatitudesMeasured ==
    /\ runs.called
    /\ runs.loc1[1] # runs.loc2[1]
    /\ runs.loc1[2] # runs.loc2[2]
    /\ Cos(runs.loc1[1]) # Cos(runs.loc2[1])
    /\ runs.forth > 0
    /\ runs.back > 0

\* ------------------------------------------- accept and cancel, both orders
\* RaceSpec feeds two runs of the server the same events and then, for a
\* searching request x of socket p and an available driver r, processes
\* driver:accept(x) from r and patient:cancel(x) from p: run a accept first,
\* run b cancel first. race keeps who raced and what each run emitted.
RaceInit ==
    /\ conn = [s \in Sockets |-> "new"]
    /\ drivers = << >>
    /\ emergencies = << >>
    /\ hospitals = << >>
    /\ nextEmergencyId = 1
    /\ outbox = << >>
    /\ lastEvent = Event("none", 0, 0, Undefined)
    /\ crashed = FALSE
    /\ steps = 0
    /\ hist = [e \in EmergencyIds |->
                 [assigned |-> 0, confirmed |-> 0, cancelled |-> FALSE]]
    /\ runs = [a |-> NewRun, b |-> NewRun, n |-> 0, race |-> << >>]

\* both runs take the same event from socket s before the race
RaceStep(s, a, b) ==
    /\ runs.race = << >>
    /\ runs.n < MaxPairSteps
    /\ runs.a.conn[s] = "open"
    /\ runs' = [runs EXCEPT !.a = a, !.b = b, !.n = @ + 1]
    /\ UNCHANGED <<conn, drivers, emergencies, hospitals, nextEmergencyId,
                   outbox, lastEvent, crashed, steps, hist>>

RaceRegister(s, l) ==
    RaceStep(s, Register(runs.a, s, <<l>>), Register(runs.b, s, <<l>>))

RaceUpdateLocation(s, l) ==
    RaceStep(s, UpdateLocation(runs.a, s, l), UpdateLocation(runs.b, s, l))

RaceAccept(s, e) ==
    RaceStep(s, Accept(runs.a, s, e), Accept(runs.b, s, e))

RaceReject(s, e) ==
    RaceStep(s, Reject(runs.a, s, e), Reject(runs.b, s, e))

RaceSos(s, l) ==
    /\ runs.a.nextEmergencyId <= MaxEmergencies
    /\ RaceStep(s, Sos(runs.a, s, <<l>>), Sos(runs.b, s, <<l>>))

RaceCancel(s, e) ==
    RaceStep(s, Cancel(runs.a, s, e), Cancel(runs.b, s, e))

RaceRegisterHospital(s) ==
    RaceStep(s, RegisterHospital(runs.a, s), RegisterHospital(runs.b, s))

RaceClose(s) ==
    RaceStep(s, Close(runs.a, s), Close(runs.b, s))

\* x is searching and p's, r is a registered available driver
Raceable(st, r, p, x) ==
    /\ st.conn[r] = "open"
    /\ st.conn[p] = "open"
    /\ x \in DOMAIN st.emergencies
    /\ st.emergencies[x].status = "searching"
    /\ st.emergencies[x].patientSocketId = p
    /\ HasKey(st.drivers, r)
    /\ MapGet(st.drivers, r).status = "available"

\* run a: driver:accept then patient:cancel; run b: the other order
Race(r, p, x) ==
    /\ runs.race = << >>
    /\ Raceable(runs.a, r, p, x)
    /\ LET a1 == Accept(runs.a, r, x)
           a2 == Cancel(a1, p, x)
           b1 == Cancel(runs.b, p, x)
           b2 == Accept(b1, r, x)
       IN  runs' = [runs EXCEPT
                      !.a = a2,
                      !.b = b2,
                      !.race = [driver |-> r, patient |-> p, id |-> x,
                                a |-> a1.outbox \o a2.outbox,
                                b |-> b1.outbox \o b2.outbox]]
    /\ UNCHANGED <<conn, drivers, emergencies, hospitals, nextEmergencyId,
                   outbox, lastEvent, crashed, steps, hist>>

RaceNext ==
    \/ \E s \in Sockets, l \in Locs : RaceRegister(s, l)
    \/ \E s \in Sockets, l \in Locs : RaceUpdateLocation(s, l)
    \/ \E s \in Sockets, e \in NameableIds(runs.a.nextEmergencyId) :
           RaceAccept(s, e)
    \/ \E s \in Sockets, e \in NameableIds(runs.a.nextEmergencyId) :
           RaceReject(s, e)
    \/ \E s \in Sockets, l \in Locs : RaceSos(s, l)
    \/ \E s \in Sockets, e \in NameableIds(runs.a.nextEmergencyId) :
           RaceCancel(s, e)
    \/ \E s \in Sockets : RaceRegisterHospital(s)
    \/ \E s \in Sockets : RaceClose(s)
    \/ \E r, p \in Sockets, x \in NameableIds(runs.a.nextEmergencyId) :
           Race(r, p, x)

RaceSpec == RaceInit /\ [][RaceNext]_vars

\* the positions in box of the messages named name about request e sent to s
SentTo(box, name, s, e) ==
    {i \in 1..Len(box) : /\ box[i].event = name
                         /\ box[i].to = s
                         /\ box[i].emergencyId = e}

\* C32: for a searching request and an available registered driver, accept
\* then cancel and cancel then accept end in the same state, with the request
\* gone from the emergencies and the driver available; the driver is sent
\* driver:assignment-confirmed and then emergency:cancelled in the first
\* order, and neither in the second.
C32_AcceptCancelCommute ==
    runs.race # << >>
    => LET r == runs.race.driver
           x == runs.race.id
           confirmed == SentTo(runs.race.a, "driver:assignment-confirmed", r, x)
           cancelled == SentTo(runs.race.a, "emergency:cancelled", r, x)
       IN  /\ [runs.a EXCEPT !.outbox = << >>] = [runs.b EXCEPT !.outbox = << >>]
           /\ x \notin DOMAIN runs.a.emergencies
           /\ MapGet(runs.a.drivers, r).status = "available"
           /\ Cardinality(confirmed) = 1
           /\ Cardinality(cancelled) = 1
           /\ \A i \in confirmed, j \in cancelled : i < j
           /\ SentTo(runs.race.b, "driver:assignment-confirmed", r, x) = {}
           /\ SentTo(runs.race.b, "emergency:cancelled", r, x) = {}

\* C32 witness: the race was run with a hospital registered, the racing
\* driver not being the requester; the first order emitted four messages, the
\* second none.
C32_RacedWithHospital ==
    /\ runs.race # << >>
    /\ runs.race.driver # runs.race.patient
    /\ Len(runs.a.hospitals) > 0
    /\ Len(runs.race.a) >= 4
    /\ Len(runs.race.b) = 0

\* ----------------------------------------- drivers that reject every offer
\* RejectSpec runs the server with drivers that answer every
\* emergency:new-request they receive with driver:reject. pending is the set
\* of offers <<driver socket, emergency id>> received and not yet answered (a
\* repeated offer of the same request to the same driver counts once); n
\* counts the events that are not answers, answers the answers processed,
\* modulo 2 (the server handles an answer even when its maps stay as they were).
RejectInit ==
    /\ conn = [s \in Sockets |-> "new"]
    /\ drivers = << >>
    /\ emergencies = << >>
    /\ hospitals = << >>
    /\ nextEmergencyId = 1
    /\ outbox = << >>
    /\ lastEvent = Event("none", 0, 0, Undefined)
    /\ crashed = FALSE
    /\ steps = 0
    /\ hist = [e \in EmergencyIds |->
                 [assigned |-> 0, confirmed |-> 0, cancelled |-> FALSE]]
    /\ runs = [st |-> NewRun, pending |-> {}, n |-> 0, answers |-> 0]

\* the offers among the messages of box
Offers(box) ==
    {<<box[i].to, box[i].emergencyId>> :
        i \in {j \in 1..Len(box) : box[j].event = "emergency:new-request"}}

\* the server processes one event of socket s, leaving state st; the offers it
\* emits are received by the sockets still connected
Serve(s, st, answered, k) ==
    /\ runs.st.conn[s] = "open"
    /\ runs' = [st |-> st,
                pending |-> {o \in (runs.pending \ answered)
                                     \cup Offers(st.outbox) :
                               st.conn[o[1]] = "open"},
                n |-> runs.n + k,
                answers |-> (runs.answers + (1 - k)) % 2]
    /\ UNCHANGED <<conn, drivers, emergencies, hospitals, nextEmergencyId,
                   outbox, lastEvent, crashed, steps, hist>>

RejectRegister(s, l) ==
    /\ runs.n < MaxPairSteps
    /\ Serve(s, Register(runs.st, s, <<l>>), {}, 1)

RejectSos(s, l) ==
    /\ runs.n < MaxPairSteps
    /\ runs.st.nextEmergencyId <= MaxEmergencies
    /\ Serve(s, Sos(runs.st, s, <<l>>), {}, 1)

RejectCancel(s, e) ==
    /\ runs.n < MaxPairSteps
    /\ Serve(s, Cancel(runs.st, s, e), {}, 1)

RejectClose(s) ==
    /\ runs.n < MaxPairSteps
    /\ Serve(s, Close(runs.st, s), {}, 1)

\* driver s answers the offer of e it holds with driver:reject
Answer(s, e) ==
    /\ <<s, e>> \in runs.pending
    /\ Serve(s, Reject(runs.st, s, e), {<<s, e>>}, 0)

Answers == \E s \in Sockets, e \in EmergencyIds : Answer(s, e)

RejectNext ==
    \/ \E s \in Sockets, l \in Locs : RejectRegister(s, l)
    \/ \E s \in Sockets, l \in Locs : RejectSos(s, l)
    \/ \E s \in Sockets, e \in NameableIds(runs.st.nextEmergencyId) :
           RejectCancel(s, e)
    \/ \E s \in Sockets : RejectClose(s)
    \/ Answers

\* every offer received is answered: the event loop runs the handler of every
\* event a connected driver sends
RejectSpec == RejectInit /\ [][RejectNext]_vars /\ WF_vars(Answers)

\* C33: when every driver answers each offer with driver:reject, the offers
\* stop: from some point on no offer is pending.
C33_RejectExchangeStops ==
    <>[](runs.pending = {})

\* ------------------------------------------------ who was offered what
\* OfferSpec runs the server and keeps in offered every pair
\* <<driver socket, emergency id>> an emergency:new-request was ever sent for.
OfferInit ==
    /\ conn = [s \in Sockets |-> "new"]
    /\ drivers = << >>
    /\ emergencies = << >>
    /\ hospitals = << >>
    /\ nextEmergencyId = 1
    /\ outbox = << >>
    /\ lastEvent = Event("none", 0, 0, Undefined)
    /\ crashed = FALSE
    /\ steps = 0
    /\ hist = [e \in EmergencyIds |->
                 [assigned |-> 0, confirmed |-> 0, cancelled |-> FALSE]]
    /\ runs = [st |-> NewRun, offered |-> {}, n |-> 0]

\* the server processes one event of socket s, leaving state st
Logged(s, st) ==
    /\ runs.n < MaxPairSteps
    /\ runs.st.conn[s] = "open"
    /\ runs' = [st |-> st,
                offered |-> runs.offered \cup Offers(st.outbox),
                n |-> runs.n + 1]
    /\ UNCHANGED <<conn, drivers, emergencies, hospitals, nextEmergencyId,
                   outbox, lastEvent, crashed, steps, hist>>

OfferRegister(s, l) == Logged(s, Register(runs.st, s, <<l>>))

OfferUpdateLocation(s, l) == Logged(s, UpdateLocation(runs.st, s, l))

OfferAccept(s, e) == Logged(s, Accept(runs.st, s, e))

OfferReject(s, e) == Logged(s, Reject(runs.st, s, e))

OfferSos(s, l) ==
    /\ runs.st.nextEmergencyId <= MaxEmergencies
    /\ Logged(s, Sos(runs.st, s, <<l>>))

OfferCancel(s, e) == Logged(s, Cancel(runs.st, s, e))

OfferRegisterHospital(s) == Logged(s, RegisterHospital(runs.st, s))

OfferClose(s) == Logged(s, Close(runs.st, s))

OfferNext ==
    \/ \E s \in Sockets, l \in Locs : OfferRegister(s, l)
    \/ \E s \in Sockets, l \in Locs : OfferUpdateLocation(s, l)
    \/ \E s \in Sockets, e \in NameableIds(runs.st.nextEmergencyId) :
           OfferAccept(s, e)
    \/ \E s \in Sockets, e \in NameableIds(runs.st.nextEmergencyId) :
           OfferReject(s, e)
    \/ \E s \in Sockets, l \in Locs : OfferSos(s, l)
    \/ \E s \in Sockets, e \in NameableIds(runs.st.nextEmergencyId) :
           OfferCancel(s, e)
    \/ \E s \in Sockets : OfferRegisterHospital(s)
    \/ \E s \in Sockets : OfferClose(s)

OfferSpec == OfferInit /\ [][OfferNext]_vars

C35_RejectChangesNothing ==
    [][lastEvent'.name = "driver:reject"
       => /\ emergencies' = emergencies
          /\ drivers' = drivers
          /\ lastEvent'.emergencyId \notin DOMAIN emergencies
             => outbox' = << >>]_vars

\* C35 witness: a driver:reject naming an accepted request has just been
\* processed and the request was offered again; it is still accepted with its
\* driver busy.
C35_RejectOfAccepted ==
    /\ lastEvent.name = "driver:reject"
    /\ lastEvent.emergencyId \in DOMAIN emergencies
    /\ emergencies[lastEvent.emergencyId].status = "accepted"
    /\ HasKey(drivers, emergencies[lastEvent.emergencyId].assignedDriver.socketId)
    /\ MapGet(drivers,
              emergencies[lastEvent.emergencyId].assignedDriver.socketId).status
         = "busy"
    /\ Sent(outbox, "emergency:new-request", lastEvent.emergencyId) # {}

\* C36: a driver:update-location changes at most the location of the driver
\* record keyed by the sending socket: that record's other fields, every other
\* driver record, the emergencies and the hospitals stay as they were, nothing
\* is emitted, and with no record for the sender nothing changes at all.
C36_UpdateLocationChangesLocationOnly ==
    [][lastEvent'.name = "driver:update-location"
       => LET s == lastEvent'.socket IN
          /\ emergencies' = emergencies
          /\ hospitals' = hospitals
          /\ nextEmergencyId' = nextEmergencyId
          /\ outbox' = << >>
          /\ ~crashed'
          /\ Len(drivers') = Len(drivers)
          /\ \A i \in 1..Len(drivers) :
                IF drivers[i].socketId = s
                THEN drivers'[i] =
                       [drivers[i] EXCEPT !.location = drivers'[i].location]
                ELSE drivers'[i] = drivers[i]
          /\ ~HasKey(drivers, s) => drivers' = drivers]_vars

\* C36 witness: a busy driver has just sent a driver:update-location that
\* replaced its location (by one without coordinates, which no registration
\* stores), with another driver registered too.
C36_BusyDriverMoved ==
    /\ lastEvent.name = "driver:update-location"
    /\ HasKey(drivers, lastEvent.socket)
    /\ MapGet(drivers, lastEvent.socket).status = "busy"
    /\ MapGet(drivers, lastEvent.socket).location = Undefined
    /\ Len(drivers) = 2

====
